---------------------------- MODULE Spec2Model ----------------------------
(***************************************************************************)
(* Model of src/streamlit_app.py, the SF gym accessibility dashboard.      *)
(*                                                                         *)
(* The Streamlit script is re-executed top to bottom on every user         *)
(* interaction.  A step of the model is one such execution (or the passing *)
(* of time between two executions): the cached loads, the sidebar          *)
(* widgets, the filter, the map tab, and the top-10 table.                 *)
(*                                                                         *)
(* The summary metrics, the data table, the CSV download and the grouped   *)
(* summaries only read filtered_df and leave no state behind; they are not *)
(* part of the state.                                                      *)
(*                                                                         *)
(* Units: populations are integers; distances are in hundredths of a mile  *)
(* (0.3 mi = 30); coordinates are integers; time is in seconds.            *)
(***************************************************************************)
EXTENDS Integers, Sequences, FiniteSets, TLC

VARIABLES
    mart,                  \* rows of mart_gym_accessibility, in storage order
    now_cache,             \* st.cache_data store: function name -> entry
    exclude_water_blocks,  \* sidebar checkbox            (line 246)
    opportunity_tiers,     \* sidebar multiselect         (line 255)
    min_population,        \* sidebar slider              (line 261)
    max_distance,          \* sidebar slider              (line 269)
    selected_metric,       \* metric_options[selectbox]   (line 290)
    show_gyms,             \* sidebar checkbox            (line 292)
    df,                    \* result of load_gym_data()   (line 240)
    filtered_df,           \* df[filter_conditions]       (line 305)
    top_10,                \* filtered_df.nlargest(10,..) (line 405)
    render,                \* last call of create_choropleth_map and its outcome
    warning,               \* st.warning shown in the map tab (line 346)
    calls,                 \* cached functions the last step called
    issued                 \* cached functions whose query the last step ran

vars == <<mart, now_cache, exclude_water_blocks, opportunity_tiers,
          min_population, max_distance, selected_metric, show_gyms,
          df, filtered_df, top_10, render, warning, calls, issued>>

---------------------------------------------------------------------------
(* Bounds of the model *)

\* Largest number of rows of the mart table in the dashboard specification.
MaxRows == 2

\* Number of rows of the mart table in the top-10 specification.
TopRows == 12

\* Seconds that pass in one Tick step.
TickSeconds == 1800

---------------------------------------------------------------------------
(* Program constants *)

\* @st.cache_data(ttl=3600)
ttl == 3600

\* filtered_df.nlargest(10, 'opportunity_score')
TopN == 10

\* st.sidebar.slider("Minimum Population", ..., step=100)
PopulationStep == 100

\* st.sidebar.slider("Max Distance ...", ..., step=0.1), in hundredths of a mile
DistanceStep == 10

\* Mutant of WATER_OVERLAPPING_BLOCKS: the second block is missing
WATER_OVERLAPPING_BLOCKS_OneOnly == <<"060750179021">>

\* List of census blocks that extend into water
WATER_OVERLAPPING_BLOCKS == <<"060750179021", "060750601001">>

\* The values of the metric_options dictionary
metric_options == {"opportunity_score", "gyms_within_half_mile",
                   "distance_to_nearest_gym_miles"}

---------------------------------------------------------------------------
(* Generic helpers *)

Range(s) == {s[i] : i \in 1..Len(s)}

Min2(a, b) == IF a <= b THEN a ELSE b

Max2(a, b) == IF a >= b THEN a ELSE b

RECURSIVE SeqMin(_)
SeqMin(s) == IF Len(s) = 1 THEN s[1] ELSE Min2(s[1], SeqMin(Tail(s)))

RECURSIVE SeqMax(_)
SeqMax(s) == IF Len(s) = 1 THEN s[1] ELSE Max2(s[1], SeqMax(Tail(s)))

\* df[col]: one column of a frame, as a sequence
Column(frame, col) == [i \in 1..Len(frame) |-> frame[i][col]]

---------------------------------------------------------------------------
(* The warehouse: geometries, rows, tables *)

\* The text ST_ASGEOJSON returns: well formed JSON text and the document it
\* denotes, or text that json.loads rejects.
GeoJSON(type, coordinates) ==
    [wellformed |-> TRUE, type |-> type, coordinates |-> coordinates]

MalformedText == [wellformed |-> FALSE, type |-> "", coordinates |-> <<>>]

\* Rings are sequences of <<longitude, latitude>> pairs.
OuterRingA == << <<-12242, 3777>>, <<-12240, 3777>>, <<-12240, 3779>>, <<-12242, 3777>> >>

HoleRingA == << <<-12241, 3778>>, <<-12240, 3778>>, <<-12241, 3777>>, <<-12241, 3778>> >>

OuterRingB == << <<-12250, 3770>>, <<-12248, 3770>>, <<-12248, 3772>>, <<-12250, 3770>> >>

OuterRingC == << <<-12236, 3781>>, <<-12234, 3781>>, <<-12234, 3783>>, <<-12236, 3781>> >>

SimplePolygon == GeoJSON("Polygon", <<OuterRingC>>)

PolygonWithHole == GeoJSON("Polygon", <<OuterRingA, HoleRingA>>)

TwoPartMultiPolygon ==
    GeoJSON("MultiPolygon", << <<OuterRingB, HoleRingA>>, <<OuterRingC>> >>)

PointGeometry == GeoJSON("Point", <<-12242, 3777>>)

\* Column names as the warehouse returns them (upper case).
MartColumns == {"CENSUS_BLOCK_GROUP", "GEOMETRY", "TOTAL_POPULATION",
                "GYMS_WITHIN_HALF_MILE", "DISTANCE_TO_NEAREST_GYM_MILES",
                "OPPORTUNITY_SCORE", "OPPORTUNITY_TIER"}

MartRow(id, tier, pop, dist, score, gyms, geom) ==
    [CENSUS_BLOCK_GROUP |-> id, GEOMETRY |-> geom, TOTAL_POPULATION |-> pop,
     GYMS_WITHIN_HALF_MILE |-> gyms, DISTANCE_TO_NEAREST_GYM_MILES |-> dist,
     OPPORTUNITY_SCORE |-> score, OPPORTUNITY_TIER |-> tier]

\* Census block group identifiers; the first two are the water-overlapping ones.
BlockIds == <<"060750179021", "060750601001", "060750101001", "060750102002",
              "060750103001", "060750104002", "060750105001", "060750106002",
              "060750107001", "060750108002", "060750109001", "060750110002",
              "060750111001", "060750112002", "060750113001", "060750114002">>

\* The rows the dashboard specification builds its mart tables from.
RowCatalogue ==
    { MartRow(BlockIds[3], "High", 500, 30, 90, 0, PolygonWithHole),
      MartRow(BlockIds[4], "Low", 1500, 80, 50, 2, TwoPartMultiPolygon),
      MartRow(BlockIds[1], "High", 500, 100, 90, 1, TwoPartMultiPolygon),
      MartRow(BlockIds[2], "Low", 0, 205, 10, 0, SimplePolygon) }

\* Sequences of 1..n distinct elements of S
RECURSIVE DistinctSeqs(_, _)
DistinctSeqs(S, n) ==
    IF n = 0 THEN {<<>>}
    ELSE LET shorter == DistinctSeqs(S, n - 1)
         IN shorter \cup
            {Append(s, r) : s \in {t \in shorter : Len(t) = n - 1},
                            r \in S} 

NoRepeat(s) == \A i, j \in 1..Len(s) : i # j => s[i] # s[j]

Marts == {s \in DistinctSeqs(RowCatalogue, MaxRows) : Len(s) >= 1 /\ NoRepeat(s)}

\* The scenario of three records with populations 500, 1500, 0 and nearest-gym
\* distances 0.3, 0.8 and 2.0 miles, none of them a water-overlapping block.
ScenarioMart ==
    << MartRow(BlockIds[3], "High", 500, 30, 90, 0, PolygonWithHole),
       MartRow(BlockIds[4], "Low", 1500, 80, 50, 2, TwoPartMultiPolygon),
       MartRow(BlockIds[5], "Low", 0, 200, 10, 0, SimplePolygon) >>

\* A mart of TopRows rows: the first `cut` rows score 90, the others 50.
TopMart(cut) ==
    [i \in 1..TopRows |->
        MartRow(BlockIds[i],
                IF i % 2 = 1 THEN "High" ELSE "Low",
                IF i % 3 = 0 THEN 0 ELSE 500,
                IF i % 4 = 0 THEN 150 ELSE 30,
                IF i <= cut THEN 90 ELSE 50,
                i % 3,
                SimplePolygon)]

TopMarts == {TopMart(3), TopMart(9), TopMart(11)}

\* LEAP_ANALYTICS.DEV_INTERMEDIATE.INT_SF_GYMS
INT_SF_GYMS ==
    << [PLACE_ID |-> "g1", DISPLAY_NAME |-> "Fit One", GYM_TYPE |-> "gym",
        LONGITUDE |-> -12241, LATITUDE |-> 3778],
       [PLACE_ID |-> "g2", DISPLAY_NAME |-> "Yoga Two", GYM_TYPE |-> "yoga",
        LONGITUDE |-> -12249, LATITUDE |-> 3771] >>

---------------------------------------------------------------------------
(* Data access: the two cached loads *)

\* str.lower on the column names the two queries return
str_lower ==
    [CENSUS_BLOCK_GROUP |-> "census_block_group", GEOMETRY |-> "geometry",
     TOTAL_POPULATION |-> "total_population",
     GYMS_WITHIN_HALF_MILE |-> "gyms_within_half_mile",
     DISTANCE_TO_NEAREST_GYM_MILES |-> "distance_to_nearest_gym_miles",
     OPPORTUNITY_SCORE |-> "opportunity_score",
     OPPORTUNITY_TIER |-> "opportunity_tier",
     PLACE_ID |-> "place_id", DISPLAY_NAME |-> "display_name",
     GYM_TYPE |-> "gym_type", LONGITUDE |-> "longitude",
     LATITUDE |-> "latitude"]

\* df.columns = df.columns.str.lower()
lower_columns(frame) ==
    [i \in 1..Len(frame) |->
        [c \in {str_lower[k] : k \in DOMAIN frame[i]} |->
            frame[i][CHOOSE k \in DOMAIN frame[i] : str_lower[k] = c]]]

\* ORDER BY opportunity_score DESC: insert row r into a frame already in
\* descending order, after the rows that score at least as much.
RECURSIVE InsertDesc(_, _)
InsertDesc(sorted, r) ==
    IF sorted = <<>> THEN <<r>>
    ELSE IF sorted[1].OPPORTUNITY_SCORE >= r.OPPORTUNITY_SCORE
         THEN <<sorted[1]>> \o InsertDesc(Tail(sorted), r)
         ELSE <<r>> \o sorted

RECURSIVE OrderByScoreDesc(_)
OrderByScoreDesc(rows) ==
    IF rows = <<>> THEN <<>>
    ELSE InsertDesc(OrderByScoreDesc(SubSeq(rows, 1, Len(rows) - 1)),
                    rows[Len(rows)])

\* The body of load_gym_data: the query and the lower-casing of the columns
load_gym_data_query(table) == lower_columns(OrderByScoreDesc(table))

\* The body of load_gym_locations
load_gym_locations_query == lower_columns(INT_SF_GYMS)

\* An entry of the st.cache_data store
NoEntry == [stored |-> FALSE, age |-> 0, value |-> <<>>]

FreshEntry(value) == [stored |-> TRUE, age |-> 0, value |-> value]

\* Mutant of cache_hit: no entry is ever served
cache_hit_Never(entry) == FALSE

\* @st.cache_data(ttl=3600): an entry is served while it is younger than ttl
cache_hit(entry) == entry.stored /\ entry.age < ttl

\* A call of a cached function f whose body would return `fresh`:
\* the value returned, the store afterwards, and whether the body ran.
cached_call(store, f, fresh) ==
    IF cache_hit(store[f])
    THEN [value |-> store[f].value, store |-> store, queried |-> {}]
    ELSE [value |-> fresh,
          store |-> [store EXCEPT ![f] = FreshEntry(fresh)],
          queried |-> {f}]

load_gym_data(store, table) ==
    cached_call(store, "load_gym_data", load_gym_data_query(table))

load_gym_locations(store) ==
    cached_call(store, "load_gym_locations", load_gym_locations_query)

---------------------------------------------------------------------------
(* Filter controller (lines 294-305) *)

\* Series.isin(values)
isin(series, values) == [i \in 1..Len(series) |-> series[i] \in values]

\* series >= x, series <= x, series > x, series < x
series_ge(series, x) == [i \in 1..Len(series) |-> series[i] >= x]

series_le(series, x) == [i \in 1..Len(series) |-> series[i] <= x]

series_gt(series, x) == [i \in 1..Len(series) |-> series[i] > x]

\* mask & mask, ~mask
mask_and(a, b) == [i \in 1..Len(a) |-> a[i] /\ b[i]]

mask_not(a) == [i \in 1..Len(a) |-> ~a[i]]

\* Mutants of filter_conditions: a strict population comparison, a reversed
\* distance comparison.
filter_conditions_StrictPopulation(frame, tiers, minp, maxd, exclude) ==
    LET base ==
            mask_and(mask_and(isin(Column(frame, "opportunity_tier"), tiers),
                              series_gt(Column(frame, "total_population"), minp)),
                     series_le(Column(frame, "distance_to_nearest_gym_miles"), maxd))
    IN  IF exclude
        THEN mask_and(base, mask_not(isin(Column(frame, "census_block_group"),
                                          Range(WATER_OVERLAPPING_BLOCKS))))
        ELSE base

filter_conditions_ReversedDistance(frame, tiers, minp, maxd, exclude) ==
    LET base ==
            mask_and(mask_and(isin(Column(frame, "opportunity_tier"), tiers),
                              series_ge(Column(frame, "total_population"), minp)),
                     series_ge(Column(frame, "distance_to_nearest_gym_miles"), maxd))
    IN  IF exclude
        THEN mask_and(base, mask_not(isin(Column(frame, "census_block_group"),
                                          Range(WATER_OVERLAPPING_BLOCKS))))
        ELSE base

\* filter_conditions, the boolean mask over the rows of df
filter_conditions(frame, tiers, minp, maxd, exclude) ==
    LET base ==
            mask_and(mask_and(isin(Column(frame, "opportunity_tier"), tiers),
                              series_ge(Column(frame, "total_population"), minp)),
                     series_le(Column(frame, "distance_to_nearest_gym_miles"), maxd))
    IN  IF exclude
        THEN mask_and(base, mask_not(isin(Column(frame, "census_block_group"),
                                          Range(WATER_OVERLAPPING_BLOCKS))))
        ELSE base

\* df[mask]: the rows whose mask entry is true, in the order of the frame
RECURSIVE boolean_index(_, _)
boolean_index(frame, mask) ==
    IF frame = <<>> THEN <<>>
    ELSE IF mask[1]
         THEN <<frame[1]>> \o boolean_index(Tail(frame), Tail(mask))
         ELSE boolean_index(Tail(frame), Tail(mask))

---------------------------------------------------------------------------
(* Top-10 view (line 405) *)

\* Index of the first row holding the largest score of a non-empty frame
FirstMaxIndex(frame) ==
    LET best == SeqMax(Column(frame, "opportunity_score"))
    IN  CHOOSE i \in 1..Len(frame) :
            /\ frame[i]["opportunity_score"] = best
            /\ \A j \in 1..(i - 1) : frame[j]["opportunity_score"] # best

LastMaxIndex(frame) ==
    LET best == SeqMax(Column(frame, "opportunity_score"))
    IN  CHOOSE i \in 1..Len(frame) :
            /\ frame[i]["opportunity_score"] = best
            /\ \A j \in (i + 1)..Len(frame) : frame[j]["opportunity_score"] # best

RemoveAt(s, i) == SubSeq(s, 1, i - 1) \o SubSeq(s, i + 1, Len(s))

\* Mutant of nlargest: among equal scores the last occurrence is taken first
\* (keep='last').
RECURSIVE nlargest_KeepLast(_, _)
nlargest_KeepLast(frame, n) ==
    IF n = 0 \/ frame = <<>> THEN <<>>
    ELSE LET i == LastMaxIndex(frame)
         IN  <<frame[i]>> \o nlargest_KeepLast(RemoveAt(frame, i), n - 1)

\* DataFrame.nlargest(n, 'opportunity_score') with the default keep='first':
\* the n rows of largest score in descending order, equal scores in the order
\* of the frame.
RECURSIVE nlargest(_, _)
nlargest(frame, n) ==
    IF n = 0 \/ frame = <<>> THEN <<>>
    ELSE LET i == FirstMaxIndex(frame)
         IN  <<frame[i]>> \o nlargest(RemoveAt(frame, i), n - 1)

---------------------------------------------------------------------------
(* Map renderer: create_choropleth_map (lines 114-236) *)

\* Outcome of a step that may raise
Returned(v) == [raised |-> FALSE, error |-> "", value |-> v]

Raised(e) == [raised |-> TRUE, error |-> e, value |-> <<>>]

\* Ascending sort of a sequence of numbers
RECURSIVE InsertAsc(_, _)
InsertAsc(sorted, x) ==
    IF sorted = <<>> THEN <<x>>
    ELSE IF sorted[1] <= x
         THEN <<sorted[1]>> \o InsertAsc(Tail(sorted), x)
         ELSE <<x>> \o sorted

RECURSIVE SortAsc(_)
SortAsc(s) ==
    IF s = <<>> THEN <<>> ELSE InsertAsc(SortAsc(Tail(s)), s[1])

\* 20 * Series.quantile(k / 20), pandas' linear interpolation between the
\* two order statistics around position (n - 1) * k / 20
quantile20(series, k) ==
    LET s    == SortAsc(series)
        pos  == (Len(s) - 1) * k
        lo   == pos \div 20
        frac == pos % 20
    IN  IF frac = 0 THEN 20 * s[lo + 1]
        ELSE 20 * s[lo + 1] + (s[lo + 2] - s[lo + 1]) * frac

\* vmin_score, vmax_score (lines 129-135), times 20
vmin_score20(frame, metric) ==
    IF metric = "opportunity_score"
    THEN quantile20(Column(frame, metric), 1)
    ELSE 20 * SeqMin(Column(frame, metric))

vmax_score20(frame, metric) ==
    IF metric = "opportunity_score"
    THEN quantile20(Column(frame, metric), 19)
    ELSE 20 * SeqMax(Column(frame, metric))

\* The color_scales dictionary (lines 137-156); bounds are times 20
color_scales(frame, metric) ==
    [opportunity_score |->
        [colors |-> <<"red", "orange", "yellow", "lightgreen", "green">>,
         vmin20 |-> vmin_score20(frame, metric),
         vmax20 |-> vmax_score20(frame, metric),
         caption |-> "Opportunity Score (Green = High Opportunity)"],
     gyms_within_half_mile |->
        [colors |-> <<"red", "orange", "yellow", "green">>,
         vmin20 |-> 0,
         vmax20 |-> 20 * SeqMax(Column(frame, metric)),
         caption |-> "Gyms within 0.5 miles (Green = More Gyms)"],
     distance_to_nearest_gym_miles |->
        [colors |-> <<"green", "yellow", "orange", "red">>,
         vmin20 |-> 0,
         vmax20 |-> 20 * SeqMax(Column(frame, metric)),
         caption |-> "Distance to Nearest Gym (Red = Farther)"]]

\* color_scales.get(metric, color_scales['opportunity_score']) (lines 158-159)
scale_key(metric) ==
    IF metric \in metric_options THEN metric ELSE "opportunity_score"

\* colormap(x): the place of x on the scale, clamped to its bounds (times 20)
colormap(scale, x) ==
    [colors |-> scale.colors,
     at20 |-> Max2(scale.vmin20, Min2(scale.vmax20, 20 * x))]

\* json.loads(row['geometry'])
json_loads(text) ==
    IF text.wellformed
    THEN Returned([type |-> text.type, coordinates |-> text.coordinates])
    ELSE Raised("JSONDecodeError")

\* How deeply a GeoJSON geometry of this type nests its coordinates:
\* a position, a list of positions, a list of rings, a list of polygons.
NestingDepth(type) ==
    CASE type = "Point" -> 1
      [] type \in {"LineString", "MultiPoint"} -> 2
      [] type \in {"Polygon", "MultiLineString"} -> 3
      [] type = "MultiPolygon" -> 4

\* Mutant of ring_coords: the last polygon of a MultiPolygon instead of the first
ring_coords_LastPolygon(geom) ==
    IF geom.type = "Polygon"
    THEN Returned(geom.coordinates[1])
    ELSE IF NestingDepth(geom.type) = 4
         THEN Returned(geom.coordinates[Len(geom.coordinates)][1])
         ELSE Raised("TypeError")

\* Lines 166-170, and what line 173 makes of it: coordinates[0] of a
\* Polygon; coordinates[0][0] of anything else, which is a ring only when
\* the coordinates nest four deep, and otherwise a number or a position that
\* cannot be subscripted or unpacked into lon, lat pairs.
ring_coords(geom) ==
    IF geom.type = "Polygon"
    THEN Returned(geom.coordinates[1])
    ELSE IF NestingDepth(geom.type) = 4
         THEN Returned(geom.coordinates[1][1])
         ELSE Raised("TypeError")

\* [[lat, lon] for lon, lat in coords] (line 173)
swap_lon_lat(coords) ==
    [i \in 1..Len(coords) |-> <<coords[i][2], coords[i][1]>>]

\* One pass of the loop body (lines 163-206): the polygon added for a row
row_polygon(row, metric, scale) ==
    LET geom == json_loads(row["geometry"])
    IN  IF geom.raised THEN geom
        ELSE LET coords == ring_coords(geom.value)
             IN  IF coords.raised THEN coords
                 ELSE Returned([locations |-> swap_lon_lat(coords.value),
                                fill_color |-> colormap(scale, row[metric]),
                                tooltip |-> row["census_block_group"]])

\* The loop over df.iterrows() (lines 162-206): the polygons added to the
\* map, or the exception of the first row that raises
RECURSIVE add_polygons(_, _, _)
add_polygons(frame, metric, scale) ==
    IF frame = <<>> THEN Returned(<<>>)
    ELSE LET first == row_polygon(frame[1], metric, scale)
         IN  IF first.raised THEN first
             ELSE LET rest == add_polygons(Tail(frame), metric, scale)
                  IN  IF rest.raised THEN rest
                      ELSE Returned(<<first.value>> \o rest.value)

\* The gym markers (lines 215-225)
gym_markers(gym_df) ==
    [i \in 1..Len(gym_df) |->
        [location |-> <<gym_df[i]["latitude"], gym_df[i]["longitude"]>>,
         tooltip |-> gym_df[i]["display_name"]]]

\* The map a call returns, or the exception it raises
MapResult(raised, error, key, scale, polygons, markers) ==
    [raised |-> raised, error |-> error, scale_key |-> key, scale |-> scale,
     polygons |-> polygons, gym_markers |-> markers]

\* What a call leaves behind: its result, the cache store after it, and the
\* queries it issued
CallOutcome(result, store, called, queried) ==
    [result |-> result, store |-> store, called |-> called,
     queried |-> queried]

NoScale == [colors |-> <<>>, vmin20 |-> 0, vmax20 |-> 0, caption |-> ""]

\* The columns of the frames load_gym_data returns
Columns == {str_lower[c] : c \in MartColumns}

\* Bounds of a scale computed over no rows: quantile, min and max of an
\* empty column are NaN
NaNScale(scale) == [scale EXCEPT !.vmin20 = "NaN", !.vmax20 = "NaN"]

\* create_choropleth_map(df, metric, show_gyms)
create_choropleth_map(frame, metric, show, store) ==
    IF metric \notin Columns
    THEN \* df[metric] at line 131 or 134
         CallOutcome(MapResult(TRUE, "KeyError", "", NoScale, <<>>, <<>>),
                     store, {}, {})
    ELSE LET key      == scale_key(metric)
             scale    == IF frame = <<>> THEN NaNScale(NoScale)
                         ELSE color_scales(frame, metric)[key]
             polygons == add_polygons(frame, metric, scale)
             gyms     == load_gym_locations(store)
         IN  IF polygons.raised
             THEN CallOutcome(MapResult(TRUE, polygons.error, "", NoScale,
                                        <<>>, <<>>),
                              store, {}, {})
             ELSE IF show
                  THEN CallOutcome(MapResult(FALSE, "", key, scale,
                                             polygons.value,
                                             gym_markers(gyms.value)),
                                   gyms.store, {"load_gym_locations"},
                                   gyms.queried)
                  ELSE CallOutcome(MapResult(FALSE, "", key, scale,
                                             polygons.value, <<>>),
                                   store, {}, {})

---------------------------------------------------------------------------
(* The script: one execution from top to bottom *)

EmptyStore == [load_gym_data |-> NoEntry, load_gym_locations |-> NoEntry]

\* The sidebar widgets' values
Widgets(exclude, tiers, minp, maxd, metric, show) ==
    [exclude_water_blocks |-> exclude, opportunity_tiers |-> tiers,
     min_population |-> minp, max_distance |-> maxd,
     selected_metric |-> metric, show_gyms |-> show]

\* df['opportunity_tier'].unique(), the options of the multiselect
TierOptions(frame) == Range(Column(frame, "opportunity_tier"))

\* int(df['total_population'].max()), the upper end of the population slider
MaxPopulation(frame) == SeqMax(Column(frame, "total_population"))

\* float(df['distance_to_nearest_gym_miles'].max()), the upper end and the
\* default of the distance slider
MaxDistance(frame) == SeqMax(Column(frame, "distance_to_nearest_gym_miles"))

\* The widgets' defaults (lines 246-292)
DefaultWidgets(frame) ==
    Widgets(TRUE, TierOptions(frame), 0, MaxDistance(frame),
            "opportunity_score", TRUE)

\* The positions of the population slider the model tries
PopulationChoices(frame) ==
    {v \in {0, PopulationStep} : v <= MaxPopulation(frame)}

\* The positions of the distance slider the model tries
DistanceChoices(frame) ==
    {v \in {10 * DistanceStep} : v <= MaxDistance(frame)}
        \cup {MaxDistance(frame)}

NotRendered ==
    [invoked |-> FALSE, frame |-> <<>>, metric |-> "", show_gyms |-> FALSE,
     result |-> MapResult(FALSE, "", "", NoScale, <<>>, <<>>)]

RenderCall(frame, metric, show, result) ==
    [invoked |-> TRUE, frame |-> frame, metric |-> metric, show_gyms |-> show,
     result |-> result]

\* Mutant of tab1_renders_map: the frame is not required to hold a row
tab1_renders_map_Always(filtered) == Len(filtered) >= 0

\* if len(filtered_df) > 0 (line 341)
tab1_renders_map(filtered) == Len(filtered) > 0

\* Lines 238-410 for the widget values w, starting from the cache store
\* `store` with `table` in the warehouse
script(store, table, w) ==
    LET data     == load_gym_data(store, table)
        frame    == data.value
        mask     == filter_conditions(frame, w.opportunity_tiers,
                                      w.min_population, w.max_distance,
                                      w.exclude_water_blocks)
        filtered == boolean_index(frame, mask)
        drawn    == create_choropleth_map(filtered, w.selected_metric,
                                          w.show_gyms, data.store)
        mapped   == tab1_renders_map(filtered)
    IN  [df |-> frame,
         filtered_df |-> filtered,
         top_10 |-> nlargest(filtered, TopN),
         render |-> IF mapped
                    THEN RenderCall(filtered, w.selected_metric, w.show_gyms,
                                    drawn.result)
                    ELSE NotRendered,
         warning |-> ~mapped,
         store |-> IF mapped THEN drawn.store ELSE data.store,
         calls |-> IF mapped THEN {"load_gym_data"} \cup drawn.called
                   ELSE {"load_gym_data"},
         issued |-> IF mapped THEN data.queried \cup drawn.queried
                    ELSE data.queried]

\* The state after the first execution of the script in a fresh process
FirstRun(table) ==
    \E w \in {DefaultWidgets(load_gym_data_query(table))} :
    \E out \in {script(EmptyStore, table, w)} :
        /\ mart = table
        /\ exclude_water_blocks = w.exclude_water_blocks
        /\ opportunity_tiers = w.opportunity_tiers
        /\ min_population = w.min_population
        /\ max_distance = w.max_distance
        /\ selected_metric = w.selected_metric
        /\ show_gyms = w.show_gyms
        /\ now_cache = out.store
        /\ df = out.df
        /\ filtered_df = out.filtered_df
        /\ top_10 = out.top_10
        /\ render = out.render
        /\ warning = out.warning
        /\ calls = out.calls
        /\ issued = out.issued

\* A rerun of the script with the widget values w
Run(w) ==
    \E out \in {script(now_cache, mart, w)} :
        /\ exclude_water_blocks' = w.exclude_water_blocks
        /\ opportunity_tiers' = w.opportunity_tiers
        /\ min_population' = w.min_population
        /\ max_distance' = w.max_distance
        /\ selected_metric' = w.selected_metric
        /\ show_gyms' = w.show_gyms
        /\ now_cache' = out.store
        /\ df' = out.df
        /\ filtered_df' = out.filtered_df
        /\ top_10' = out.top_10
        /\ render' = out.render
        /\ warning' = out.warning
        /\ calls' = out.calls
        /\ issued' = out.issued
        /\ UNCHANGED mart

CurrentWidgets ==
    Widgets(exclude_water_blocks, opportunity_tiers, min_population,
            max_distance, selected_metric, show_gyms)

---------------------------------------------------------------------------
(* Actions *)

ToggleExcludeWater ==
    \E checked \in BOOLEAN :
        /\ checked # exclude_water_blocks
        /\ Run([CurrentWidgets EXCEPT !.exclude_water_blocks = checked])

SelectTiers ==
    \E tiers \in SUBSET TierOptions(df) :
        /\ tiers # opportunity_tiers
        /\ Run([CurrentWidgets EXCEPT !.opportunity_tiers = tiers])

SlideMinPopulation ==
    \E v \in PopulationChoices(df) :
        /\ v # min_population
        /\ Run([CurrentWidgets EXCEPT !.min_population = v])

SlideMaxDistance ==
    \E v \in DistanceChoices(df) :
        /\ v # max_distance
        /\ Run([CurrentWidgets EXCEPT !.max_distance = v])

SelectMetric ==
    \E metric \in metric_options :
        /\ metric # selected_metric
        /\ Run([CurrentWidgets EXCEPT !.selected_metric = metric])

ToggleShowGyms ==
    \E checked \in BOOLEAN :
        /\ checked # show_gyms
        /\ Run([CurrentWidgets EXCEPT !.show_gyms = checked])

\* The user reruns the script without touching a widget
Rerun ==
    \E w \in {CurrentWidgets} : Run(w)

\* Time passes between two executions.  An entry that has reached ttl is
\* expired whatever its age, so ages stop there.
Tick ==
    /\ now_cache' =
         [f \in DOMAIN now_cache |->
            IF now_cache[f].stored
            THEN [now_cache[f] EXCEPT
                    !.age = Min2(ttl, now_cache[f].age + TickSeconds)]
            ELSE now_cache[f]]
    /\ calls' = {}
    /\ issued' = {}
    /\ UNCHANGED <<mart, exclude_water_blocks, opportunity_tiers,
                   min_population, max_distance, selected_metric, show_gyms,
                   df, filtered_df, top_10, render, warning>>

Init == \E table \in Marts : FirstRun(table)

Next ==
    \/ ToggleExcludeWater
    \/ SelectTiers
    \/ SlideMinPopulation
    \/ SlideMaxDistance
    \/ SelectMetric
    \/ ToggleShowGyms
    \/ Rerun
    \/ Tick

Spec == Init /\ [][Next]_vars

---------------------------------------------------------------------------
(* The scenario specification: the dashboard over the three-record mart *)

InitScenario == FirstRun(ScenarioMart)

SpecScenario == InitScenario /\ [][Next]_vars

---------------------------------------------------------------------------
(* The top-10 specification: the dashboard over marts of TopRows rows *)

InitTop == \E table \in TopMarts : FirstRun(table)

SpecTop == InitTop /\ [][Next]_vars

---------------------------------------------------------------------------
(* The renderer specification: create_choropleth_map called directly, with   *)
(* any metric key and with frames that may hold a geometry the loop cannot  *)
(* handle                                                                   *)

\* Rows a caller may pass: the catalogue's, one whose geometry text is not
\* JSON, and one whose geometry is a Point
RenderRows ==
    lower_columns(
        << MartRow(BlockIds[3], "High", 500, 30, 90, 0, PolygonWithHole),
           MartRow(BlockIds[4], "Low", 1500, 80, 50, 2, TwoPartMultiPolygon),
           MartRow(BlockIds[5], "Low", 0, 200, 10, 0, SimplePolygon),
           MartRow(BlockIds[6], "High", 100, 50, 70, 1, MalformedText),
           MartRow(BlockIds[7], "Low", 200, 60, 30, 1, PointGeometry) >>)

\* Non-empty sequences of at most MaxRows distinct row numbers
RenderPicks ==
    {ix \in DistinctSeqs(1..Len(RenderRows), MaxRows) :
        Len(ix) >= 1 /\ NoRepeat(ix)}

\* The three recognized metric keys, a column that is none of them, and a
\* key that is no column
RenderMetrics == metric_options \cup {"total_population", "population_density"}

CallRenderer ==
    \E ix \in RenderPicks, metric \in RenderMetrics, show \in BOOLEAN :
    \E frame \in {[i \in 1..Len(ix) |-> RenderRows[ix[i]]]} :
    \E out \in {create_choropleth_map(frame, metric, show, now_cache)} :
        /\ render' = RenderCall(frame, metric, show, out.result)
        /\ now_cache' = out.store
        /\ calls' = out.called
        /\ issued' = out.queried
        /\ UNCHANGED <<mart, exclude_water_blocks, opportunity_tiers,
                       min_population, max_distance, selected_metric,
                       show_gyms, df, filtered_df, top_10, warning>>

NextRender ==
    \/ CallRenderer
    \/ Tick

SpecRender == InitScenario /\ [][NextRender]_vars

---------------------------------------------------------------------------
(* Properties *)

\* The two flagged identifiers, as the specification names them
FlaggedIds == {"060750179021", "060750601001"}

\* The filter rule, record by record
Keeps(row, tiers, minp, maxd, exclude) ==
    /\ row["opportunity_tier"] \in tiers
    /\ row["total_population"] >= minp
    /\ row["distance_to_nearest_gym_miles"] <= maxd
    /\ exclude => row["census_block_group"] \notin FlaggedIds

\* The positions of the records of df the current filter state keeps
KeptPositions ==
    {i \in 1..Len(df) :
        Keeps(df[i], opportunity_tiers, min_population, max_distance,
              exclude_water_blocks)}

\* The k-th smallest element of a set of positions
KthOf(P, k) == CHOOSE i \in P : Cardinality({j \in P : j <= i}) = k

\* C1: the filtered sequence is exactly the records of the input that pass
\* all four conditions (tier selected, population >= minimum, distance <=
\* maximum, not flagged when exclusion is on), in the order of the input.
C1_FilterExact ==
    /\ Len(filtered_df) = Cardinality(KeptPositions)
    /\ \A k \in 1..Len(filtered_df) : filtered_df[k] = df[KthOf(KeptPositions, k)]

\* C1 witness: the filter kept two records with a dropped record between them.
C1_Witness ==
    \E i, j, k \in 1..Len(df) :
        /\ i < j /\ j < k
        /\ KeptPositions \cap {i, j, k} = {i, k}
        /\ Len(filtered_df) >= 2

\* C2: with exclusion enabled neither flagged identifier is in the filtered
\* output, whatever the other filter settings are.
C2_FlaggedExcluded ==
    exclude_water_blocks =>
        \A k \in 1..Len(filtered_df) :
            filtered_df[k]["census_block_group"] \notin FlaggedIds

\* C2 witness: exclusion is on, the population slider has been moved, a
\* flagged record of the data passes the tier, population and distance
\* conditions, and another record is shown.
C2_Witness ==
    /\ exclude_water_blocks
    /\ min_population > 0
    /\ \E i \in 1..Len(df) :
          /\ df[i]["census_block_group"] \in FlaggedIds
          /\ Keeps(df[i], opportunity_tiers, min_population, max_distance, FALSE)
    /\ Len(filtered_df) >= 1

\* The filter states the widgets can take over a frame
FilterStates(frame) ==
    [tiers : SUBSET TierOptions(frame), minp : PopulationChoices(frame),
     maxd : DistanceChoices(frame), exclude : BOOLEAN]

\* The filtered sequence under a filter state
Filtered(frame, f) ==
    boolean_index(frame,
                  filter_conditions(frame, f.tiers, f.minp, f.maxd, f.exclude))

\* f is at most as permissive as g
MoreRestrictive(f, g) ==
    /\ f.tiers \subseteq g.tiers
    /\ f.minp >= g.minp
    /\ f.maxd <= g.maxd
    /\ g.exclude => f.exclude

CurrentFilter ==
    [tiers |-> opportunity_tiers, minp |-> min_population,
     maxd |-> max_distance, exclude |-> exclude_water_blocks]

\* s is t with some elements left out
IsSubsequence(s, t) ==
    \E P \in SUBSET (1..Len(t)) :
        /\ Cardinality(P) = Len(s)
        /\ \A k \in 1..Len(s) : s[k] = t[KthOf(P, k)]

\* C3: the filtered sequence is a part of the full sequence, and no filter
\* state that is at most as permissive as another one over the same data keeps
\* more records than it.
C3_SubsetAndMonotone ==
    /\ IsSubsequence(filtered_df, df)
    /\ \A g \in FilterStates(df) :
          /\ MoreRestrictive(CurrentFilter, g) =>
                Len(filtered_df) <= Len(Filtered(df, g))
          /\ MoreRestrictive(g, CurrentFilter) =>
                Len(Filtered(df, g)) <= Len(filtered_df)

\* C3 witness: the current filter state is narrower than the default one in
\* tiers, population and distance, and keeps fewer records, but not none.
C3_Witness ==
    /\ opportunity_tiers # TierOptions(df)
    /\ min_population > 0
    /\ max_distance < MaxDistance(df)
    /\ Len(filtered_df) >= 1
    /\ Len(filtered_df) < Len(df)

\* The scenario: populations 500, 1500, 0; distances 0.3, 0.8, 2.0 miles;
\* minimum population 100, maximum distance 1.0, all tiers selected, no
\* flagged record
ScenarioState ==
    /\ Column(df, "total_population") = <<500, 1500, 0>>
    /\ Column(df, "distance_to_nearest_gym_miles") = <<30, 80, 200>>
    /\ min_population = 100
    /\ max_distance = 100
    /\ opportunity_tiers = TierOptions(df)
    /\ Range(Column(df, "census_block_group")) \cap FlaggedIds = {}

\* C4 as stated: in the scenario the result is exactly the first record.
C4_Original == ScenarioState => filtered_df = <<df[1]>>

\* C4 amended: in the scenario the result is exactly the first two records
\* (population 500 at 0.3 miles, population 1500 at 0.8 miles); only the
\* third record (population 0, 2.0 miles) is dropped.
C4_FirstTwoRecords == ScenarioState => filtered_df = <<df[1], df[2]>>

\* C4 witness: the scenario's filter state over the scenario's records.
C4_Witness == ScenarioState /\ Len(filtered_df) = 2

\* The positions in the filtered sequence of the records of the top-10 view
TopPositions ==
    {i \in 1..Len(filtered_df) : filtered_df[i] \in Range(top_10)}

\* C5: the top-10 view holds min(10, n) distinct records of the filtered
\* sequence; every record in it scores at least as much as every record left
\* out; and of two records with the same score, one in and one out, the one
\* in comes earlier in the filtered sequence.
C5_TopTen ==
    Len(filtered_df) >= 1 =>
        /\ Len(top_10) = Min2(10, Len(filtered_df))
        /\ Range(top_10) \subseteq Range(filtered_df)
        /\ Cardinality(TopPositions) = Len(top_10)
        /\ \A i \in TopPositions :
           \A j \in (1..Len(filtered_df)) \ TopPositions :
              \/ filtered_df[i]["opportunity_score"]
                    > filtered_df[j]["opportunity_score"]
              \/ /\ filtered_df[i]["opportunity_score"]
                      = filtered_df[j]["opportunity_score"]
                 /\ i < j

\* C5 witness: more than ten records pass the filter, and a record left out
\* of the view scores the same as one in it.
C5_Witness ==
    /\ Len(filtered_df) > 10
    /\ Len(top_10) = 10
    /\ \E i \in TopPositions :
       \E j \in (1..Len(filtered_df)) \ TopPositions :
          filtered_df[i]["opportunity_score"] = filtered_df[j]["opportunity_score"]

\* C6: in every render cycle the renderer is invoked exactly when the
\* filtered sequence has a record, and on that sequence; when it has none
\* the renderer is not invoked and the empty-state message is shown.
C6_RenderOnlyNonEmpty ==
    /\ render.invoked <=> Len(filtered_df) > 0
    /\ render.invoked => render.frame = filtered_df
    /\ warning <=> Len(filtered_df) = 0
    /\ warning => ~render.invoked

\* C6 witness: a render cycle after the user deselected every tier, so that
\* the filter left no record of a non-empty data set.
C6_Witness ==
    /\ opportunity_tiers = {}
    /\ Len(df) >= 1
    /\ Len(filtered_df) = 0
    /\ warning
    /\ ~render.invoked

\* The ring the specification says is drawn for a geometry document
DocumentedRing(geometry) ==
    IF geometry.type = "Polygon" THEN geometry.coordinates[1]
    ELSE geometry.coordinates[1][1]

\* locations is ring with every pair turned around
IsSwapped(locations, ring) ==
    /\ Len(locations) = Len(ring)
    /\ \A k \in 1..Len(ring) :
          locations[k][1] = ring[k][2] /\ locations[k][2] = ring[k][1]

\* C7: the renderer draws exactly one shape per input record, in order: the
\* first ring of a Polygon, the first ring of the first sub-polygon of a
\* MultiPolygon, every pair swapped to latitude first.
C7_OneShapePerRecord ==
    render.invoked =>
        /\ ~render.result.raised
        /\ Len(render.result.polygons) = Len(render.frame)
        /\ \A i \in 1..Len(render.frame) :
              /\ render.result.polygons[i].tooltip
                    = render.frame[i]["census_block_group"]
              /\ IsSwapped(render.result.polygons[i].locations,
                           DocumentedRing(render.frame[i]["geometry"]))

\* C7 witness: after the user chose another metric, a map was drawn for two
\* records, one a Polygon with a hole and one a MultiPolygon of two
\* sub-polygons, and holds two shapes.
C7_Witness ==
    /\ render.invoked
    /\ render.metric = "distance_to_nearest_gym_miles"
    /\ Len(render.result.polygons) = 2
    /\ \E i \in 1..Len(render.frame) :
          /\ render.frame[i]["geometry"].type = "MultiPolygon"
          /\ Len(render.frame[i]["geometry"].coordinates) = 2
    /\ \E i \in 1..Len(render.frame) :
          /\ render.frame[i]["geometry"].type = "Polygon"
          /\ Len(render.frame[i]["geometry"].coordinates) = 2

\* A geometry the loop can draw: JSON text of a Polygon or a MultiPolygon
DrawableGeometry(text) ==
    text.wellformed /\ text.type \in {"Polygon", "MultiPolygon"}

\* C8 as stated: a call with a metric key that is none of the three
\* recognized ones, on records that all have a drawable geometry, completes
\* and uses the opportunity-score scale.
C8_UnrecognizedMetricFallsBack ==
    ( /\ render.invoked
      /\ render.metric \notin metric_options
      /\ \A i \in 1..Len(render.frame) :
            DrawableGeometry(render.frame[i]["geometry"]) )
    => ( /\ ~render.result.raised
         /\ render.result.scale_key = "opportunity_score"
         /\ Len(render.result.polygons) = Len(render.frame) )

\* C9 as stated: a call on records of which one has a geometry that cannot be
\* drawn completes, and the map holds a shape for every other record.
C9_BadGeometryIsolated ==
    ( /\ render.invoked
      /\ render.metric \in metric_options
      /\ \E i \in 1..Len(render.frame) :
            ~DrawableGeometry(render.frame[i]["geometry"]) )
    => ( /\ ~render.result.raised
         /\ \A i \in 1..Len(render.frame) :
               DrawableGeometry(render.frame[i]["geometry"]) =>
                  \E k \in 1..Len(render.result.polygons) :
                     render.result.polygons[k].tooltip
                        = render.frame[i]["census_block_group"] )

\* An entry of the cache store is within its one-hour window
WithinWindow(entry) == entry.stored /\ entry.age < 3600

\* C10: a step that calls a cached load whose entry is within its window
\* issues no query for it and is handed the cached value, which stays in the
\* store; a query is issued only by a call that finds no entry or an entry
\* whose window has expired.
C10_CachedWithinWindow ==
    [][\A f \in {"load_gym_data", "load_gym_locations"} :
          /\ (f \in calls' /\ WithinWindow(now_cache[f])) =>
                /\ f \notin issued'
                /\ now_cache'[f] = now_cache[f]
          /\ ("load_gym_data" \in calls'
                /\ WithinWindow(now_cache["load_gym_data"])) =>
                df' = now_cache["load_gym_data"].value
          /\ f \in issued' =>
                /\ f \in calls'
                /\ ~WithinWindow(now_cache[f])]_vars

\* C10 witness: the last step called both loads, both entries were stored
\* earlier and are within their window, and no query was issued.
C10_Witness ==
    /\ calls = {"load_gym_data", "load_gym_locations"}
    /\ issued = {}
    /\ \A f \in DOMAIN now_cache :
          now_cache[f].stored /\ now_cache[f].age > 0 /\ now_cache[f].age < 3600

=============================================================================
